---------------------------- MODULE Spec2Model ----------------------------
(***************************************************************************)
(* A model of the three analysis scripts of the repository:                *)
(*                                                                         *)
(*   run_regression.py  load Exports / REER / IIP, resample the monthly    *)
(*                      series to quarters, align, log-transform, fit OLS  *)
(*   work.py            the same pipeline without resampling and without   *)
(*                      any error handling                                 *)
(*   databreeeeee.py    outer merge of three REER tables on Date           *)
(*                                                                         *)
(* Dates.  A date is a natural number; dates 2q and 2q+1 lie in quarter q, *)
(* and 2q+1 is the last calendar day of quarter q.                         *)
(*                                                                         *)
(* Cells.  A cell is a record [k, n, d]:                                   *)
(*   k = "num"   the finite number n/d (d > 0, in lowest terms)            *)
(*   k = "nan"   pandas' missing value NaN                                 *)
(*   k = "ln"    the finite number ln(n/d), n/d > 0                        *)
(*   k = "ninf"  -inf, which is what numpy's log returns for 0             *)
(*   k = "est"   a finite number computed by the least-squares solver      *)
(* Input files hold numeric or missing cells and string column names.      *)
(*                                                                         *)
(* Frames.  A DataFrame is [columns, index, data]: data[i] is the row at   *)
(* index[i], one cell per column.                                          *)
(***************************************************************************)
EXTENDS Integers, Sequences, FiniteSets, TLC

\* ------------------------------------------------------------------ bounds

\* Quarters the input dates of the date-varying inputs range over.
NumQuarters == 2
\* Rows of an input table in the date-varying inputs.
MaxRows == 2
\* Columns of the REER sheet in the column-varying inputs.
MaxCols == 2

\* ------------------------------------------------------------------- cells

Num(n) == [k |-> "num", n |-> n, d |-> 1]
NaN == [k |-> "nan", n |-> 0, d |-> 0]
NegInf == [k |-> "ninf", n |-> 0, d |-> 0]
Est == [k |-> "est", n |-> 0, d |-> 0]

IsNa(c) == c.k = "nan"
IsFinite(c) == c.k \in {"num", "ln", "est"}

Abs(i) == IF i < 0 THEN -i ELSE i

RECURSIVE Gcd(_, _)
Gcd(a, b) == IF b = 0 THEN a ELSE Gcd(b, a % b)

\* The number s/c (c > 0) as a cell in lowest terms.
Ratio(s, c) ==
  LET g == Gcd(Abs(s), c)
  IN  [k |-> "num", n |-> s \div g, d |-> c \div g]

RECURSIVE SumN(_)
SumN(cells) == IF cells = <<>> THEN 0 ELSE Head(cells).n + SumN(Tail(cells))

\* ---------------------------------------------------------------- sequences

Range(s) == {s[i] : i \in DOMAIN s}
Count(s, x) == Cardinality({i \in DOMAIN s : s[i] = x})
HasDuplicates(s) == \E i, j \in DOMAIN s : i < j /\ s[i] = s[j]
IsSorted(s) == \A i, j \in DOMAIN s : i < j => s[i] <= s[j]
SetMin(S) == CHOOSE x \in S : \A y \in S : x <= y
SetMax(S) == CHOOSE x \in S : \A y \in S : y <= x
Repeat(x, n) == [i \in 1..n |-> x]

RECURSIVE Flatten(_)
Flatten(ss) == IF ss = <<>> THEN <<>> ELSE Head(ss) \o Flatten(Tail(ss))

\* ------------------------------------------------------------------- frames

NoFrame == [columns |-> <<>>, index |-> <<>>, data |-> <<>>]
Frame(cols, idx, dat) == [columns |-> cols, index |-> idx, data |-> dat]
NRows(df) == Len(df.index)
ColPos(df, c) == CHOOSE j \in DOMAIN df.columns : df.columns[j] = c
HasCol(df, c) == \E j \in DOMAIN df.columns : df.columns[j] = c
Column(df, c) == [i \in DOMAIN df.index |-> df.data[i][ColPos(df, c)]]
Dates(df) == Range(df.index)

\* df[[c1, ..]]: the named columns, in the order asked for.
SelectColumns(df, cols) ==
  Frame(cols, df.index,
        [i \in DOMAIN df.index |-> [j \in DOMAIN cols |-> df.data[i][ColPos(df, cols[j])]]])

\* df.rename(columns = {old: new}); a name that is absent is ignored.
RenameColumn(df, old, new) ==
  [df EXCEPT !.columns = [j \in DOMAIN df.columns |->
                            IF df.columns[j] = old THEN new ELSE df.columns[j]]]

\* df[name] = cells: overwrites the column when it exists, appends it otherwise.
SetColumn(df, name, cells) ==
  IF HasCol(df, name)
    THEN [df EXCEPT !.data = [i \in DOMAIN df.index |->
                                [df.data[i] EXCEPT ![ColPos(df, name)] = cells[i]]]]
    ELSE Frame(Append(df.columns, name), df.index,
               [i \in DOMAIN df.index |-> Append(df.data[i], cells[i])])

\* ------------------------------------------------------------------ quarters

\* index.to_period("Q")
QuarterOf(date) == date \div 2
\* the last calendar day of quarter q
QuarterEnd(q) == 2 * q + 1
IsQuarterEnd(date) == date = QuarterEnd(QuarterOf(date))

\* index.to_period("Q").to_timestamp("Q")
ToQuarterEnd(idx) == [i \in DOMAIN idx |-> QuarterEnd(QuarterOf(idx[i]))]

\* A resampler that adds the bin up instead of averaging it.
MeanAsSum(cells) ==
  LET nums == SelectSeq(cells, LAMBDA c : ~IsNa(c))
  IN  IF nums = <<>> THEN NaN ELSE Num(SumN(nums))

\* Series.mean() of one resampling bin: missing cells are skipped, and a bin
\* with no number in it is missing.
Mean(cells) ==
  LET nums == SelectSeq(cells, LAMBDA c : ~IsNa(c))
  IN  IF nums = <<>> THEN NaN ELSE Ratio(SumN(nums), Len(nums))

\* The cells of column j at the rows dated in quarter q, in row order.
RECURSIVE BinCells(_, _, _, _)
BinCells(df, j, q, i) ==
  IF i > NRows(df) THEN <<>>
  ELSE (IF QuarterOf(df.index[i]) = q THEN <<df.data[i][j]>> ELSE <<>>)
       \o BinCells(df, j, q, i + 1)

\* df.resample("QE").mean(): one bin per quarter from the first to the last
\* date, labelled with the quarter's last day.
Resample(df) ==
  IF NRows(df) = 0 THEN Frame(df.columns, <<>>, <<>>)
  ELSE LET q0 == QuarterOf(SetMin(Dates(df)))
           q1 == QuarterOf(SetMax(Dates(df)))
           n  == q1 - q0 + 1
       IN  Frame(df.columns,
                 [b \in 1..n |-> QuarterEnd(q0 + b - 1)],
                 [b \in 1..n |-> [j \in DOMAIN df.columns |->
                                    Mean(BinCells(df, j, q0 + b - 1, 1))]])

\* ----------------------------------------------------------------- alignment

RECURSIVE SortedUnion(_, _, _)
SortedUnion(a, b, S) ==
  IF S = {} THEN <<>>
  ELSE LET m == SetMin(S)
           c == IF Count(a, m) >= Count(b, m) THEN Count(a, m) ELSE Count(b, m)
       IN  Repeat(m, c) \o SortedUnion(a, b, S \ {m})

\* Index.union(other, sort=None) of two DatetimeIndexes: an empty or equal
\* operand returns the other one as it is; otherwise the result is sorted and
\* a label keeps the larger of its two multiplicities.
IndexUnion(a, b) ==
  IF Len(b) = 0 \/ a = b THEN a
  ELSE IF Len(a) = 0 THEN b
  ELSE SortedUnion(a, b, Range(a) \cup Range(b))

\* union_indexes: the union of the frames' indexes, left to right.
RECURSIVE UnionIndexes(_)
UnionIndexes(idxs) ==
  IF Len(idxs) = 1 THEN idxs[1]
  ELSE IndexUnion(UnionIndexes(SubSeq(idxs, 1, Len(idxs) - 1)), idxs[Len(idxs)])

\* A frame is reindexed to the combined index unless its own index equals it;
\* get_indexer on an index with duplicate labels raises InvalidIndexError.
ConcatRaises(frames) ==
  LET new == UnionIndexes([f \in DOMAIN frames |-> frames[f].index])
  IN  \E f \in DOMAIN frames :
        frames[f].index # new /\ HasDuplicates(frames[f].index)

\* The row of df for label `date`: missing cells when df has no such label.
RowAt(df, date) ==
  IF date \in Dates(df)
    THEN df.data[CHOOSE i \in DOMAIN df.index : df.index[i] = date]
    ELSE Repeat(NaN, Len(df.columns))

Reindex(df, new) ==
  IF df.index = new THEN df.data ELSE [i \in DOMAIN new |-> RowAt(df, new[i])]

\* pd.concat(frames, axis=1), when it does not raise.
Concat(frames) ==
  LET new == UnionIndexes([f \in DOMAIN frames |-> frames[f].index])
  IN  Frame(Flatten([f \in DOMAIN frames |-> frames[f].columns]),
            new,
            [i \in DOMAIN new |->
               Flatten([f \in DOMAIN frames |-> Reindex(frames[f], new)[i]])])

RowHasNa(row) == \E j \in DOMAIN row : IsNa(row[j])

\* The positions of the rows dropna keeps, in order.
RECURSIVE KeptRows(_, _)
KeptRows(df, i) ==
  IF i > NRows(df) THEN <<>>
  ELSE (IF RowHasNa(df.data[i]) THEN <<>> ELSE <<i>>) \o KeptRows(df, i + 1)

\* df.dropna(): the rows without a missing cell.
DropNa(df) ==
  LET keep == KeptRows(df, 1)
  IN  Frame(df.columns,
            [r \in DOMAIN keep |-> df.index[keep[r]]],
            [r \in DOMAIN keep |-> df.data[keep[r]]])

\* index.min() / index.max(); NaT (-1) for an empty index.
NaT == 0 - 1
IndexMin(df) == IF NRows(df) = 0 THEN NaT ELSE SetMin(Dates(df))
IndexMax(df) == IF NRows(df) = 0 THEN NaT ELSE SetMax(Dates(df))

\* ----------------------------------------------------------------- logarithm

\* np.log of one cell: ln x for x > 0, -inf for 0, NaN for x < 0 and for NaN.
\* numpy warns for 0 and for x < 0; it does not raise.
Log(c) ==
  IF c.k = "num" /\ c.n > 0 THEN [k |-> "ln", n |-> c.n, d |-> c.d]
  ELSE IF c.k = "num" /\ c.n = 0 THEN NegInf
  ELSE NaN

LogColumn(df, c) == [i \in DOMAIN df.index |-> Log(Column(df, c)[i])]

\* ----------------------------------------------------------------- regression

IsZero(c) == (c.k = "num" /\ c.n = 0) \/ (c.k = "ln" /\ c.n = c.d)

\* add_trend's safe_is_const: np.ptp(s) == 0.0 and np.any(s != 0.0).  ptp of an
\* empty column raises (caught: False); ptp is NaN with a NaN or a -inf cell.
IsNonZeroConstant(cells) ==
  /\ Len(cells) > 0
  /\ \A i \in DOMAIN cells : IsFinite(cells[i]) /\ cells[i] = cells[1]
  /\ ~IsZero(cells[1])

\* sm.add_constant(X), has_constant = "skip": a column "const" of ones is put
\* first unless X already has a non-zero constant column.
AddConstant(df) ==
  IF \E j \in DOMAIN df.columns : IsNonZeroConstant(Column(df, df.columns[j]))
    THEN df
    ELSE Frame(<<"const">> \o df.columns, df.index,
               [i \in DOMAIN df.index |-> <<Num(1)>> \o df.data[i]])

AllCells(df) == {df.data[i][j] : i \in DOMAIN df.index, j \in DOMAIN df.columns}

\* sm.OLS(y, X).fit(): the outcomes it can have.
\*   zero rows: np.max over an empty axis raises ValueError;
\*   a column of exog whose maximum is not finite (a NaN cell, or -inf only):
\*     MissingDataError;
\*   -inf left in exog: the pseudo-inverse's SVD raises LinAlgError or returns
\*     NaN, depending on the LAPACK build;
\*   NaN or -inf in endog only: the fit returns NaN estimates.
OlsOutcomes(yy, XX) ==
  IF NRows(XX) = 0 THEN {"raise"}
  ELSE IF \E j \in DOMAIN XX.columns :
            LET col == Column(XX, XX.columns[j])
            IN  \/ \E i \in DOMAIN col : IsNa(col[i])
                \/ \A i \in DOMAIN col : col[i] = NegInf
         THEN {"raise"}
  ELSE IF NegInf \in AllCells(XX) THEN {"ok", "raise"}
  ELSE {"ok"}

NoResults == [nobs |-> 0, params |-> <<>>, index |-> <<>>,
              fittedvalues |-> <<>>, resid |-> <<>>]

\* The RegressionResults of a fit that returned: one coefficient per column of
\* exog, one fitted value and one residual per row, on exog's index.
OlsResults(yy, XX) ==
  LET finite == \A c \in AllCells(yy) \cup AllCells(XX) : IsFinite(c)
      cell   == IF finite THEN Est ELSE NaN
  IN  [nobs |-> NRows(XX), params |-> XX.columns, index |-> XX.index,
       fittedvalues |-> Repeat(cell, NRows(XX)),
       resid |-> Repeat(cell, NRows(XX))]

\* df[name] = series: the series is aligned to df's index; equal indexes need
\* no reindexing.
SetColumnAligned(df, name, idx, cells) ==
  IF idx = df.index THEN SetColumn(df, name, cells)
  ELSE SetColumn(df, name,
                 [i \in DOMAIN df.index |->
                    IF \E r \in DOMAIN idx : idx[r] = df.index[i]
                      THEN cells[CHOOSE r \in DOMAIN idx : idx[r] = df.index[i]]
                      ELSE NaN])

\* -------------------------------------------------------------------- merging

\* The rows of df whose key is `date`, in row order.
RECURSIVE RowsFrom(_, _, _)
RowsFrom(df, date, i) ==
  IF i > NRows(df) THEN <<>>
  ELSE (IF df.index[i] = date THEN <<df.data[i]>> ELSE <<>>) \o RowsFrom(df, date, i + 1)

RowsAt(df, date) == RowsFrom(df, date, 1)

\* The rows of an outer merge for one key: every pairing of the left rows and
\* the right rows with that key; a side without the key gives missing cells.
PairRows(ls, rs, nl, nr) ==
  LET l == IF ls = <<>> THEN <<Repeat(NaN, nl)>> ELSE ls
      r == IF rs = <<>> THEN <<Repeat(NaN, nr)>> ELSE rs
  IN  [p \in 1..(Len(l) * Len(r)) |->
         l[((p - 1) \div Len(r)) + 1] \o r[((p - 1) % Len(r)) + 1]]

RECURSIVE MergeKeys(_, _, _)
MergeKeys(left, right, S) ==
  IF S = {} THEN <<>>
  ELSE LET m == SetMin(S)
           rows == PairRows(RowsAt(left, m), RowsAt(right, m),
                            Len(left.columns), Len(right.columns))
       IN  [i \in DOMAIN rows |-> <<m, rows[i]>>] \o MergeKeys(left, right, S \ {m})

\* pd.merge(left, right, on="Date", how="outer"): the union of the keys, in
\* key order.
MergeOuter(left, right) ==
  LET rows == MergeKeys(left, right, Dates(left) \cup Dates(right))
  IN  Frame(left.columns \o right.columns,
            [i \in DOMAIN rows |-> rows[i][1]],
            [i \in DOMAIN rows |-> rows[i][2]])

\* The position of the smallest date of idx among the positions in P; the
\* first one on a tie (the sort is stable).
FirstMin(idx, P) ==
  CHOOSE i \in P : \A j \in P : idx[i] < idx[j] \/ (idx[i] = idx[j] /\ i <= j)

RECURSIVE SortOrder(_, _)
SortOrder(idx, P) ==
  IF P = {} THEN <<>>
  ELSE LET i == FirstMin(idx, P) IN <<i>> \o SortOrder(idx, P \ {i})

\* df.sort_values("Date")
SortByDate(df) ==
  LET o == SortOrder(df.index, DOMAIN df.index)
  IN  Frame(df.columns, [r \in DOMAIN o |-> df.index[o[r]]],
            [r \in DOMAIN o |-> df.data[o[r]]])

\* --------------------------------------------------------------------- inputs

exports_file == "IMP5330.csv"
reer_file == "REER INDIA Q.xlsx"
iip_file == "iip_data.csv"

RECURSIVE SortedSeq(_)
SortedSeq(S) ==
  IF S = {} THEN <<>> ELSE LET m == SetMin(S) IN <<m>> \o SortedSeq(S \ {m})

\* A one-column table with a row at each date of D, holding f[date].
TableOf(col, D, f) ==
  LET idx == SortedSeq(D)
  IN  Frame(<<col>>, idx, [i \in DOMAIN idx |-> <<f[idx[i]]>>])

\* The one-column tables with at most n rows, dates strictly increasing.
Tables(col, dates, cells, n) ==
  UNION {{TableOf(col, D, f) : f \in [D -> cells]} :
           D \in {S \in SUBSET dates : Cardinality(S) <= n}}

File(df) == [status |-> "ok", df |-> df]
Missing == [status |-> "missing", df |-> NoFrame]
Unreadable == [status |-> "bad", df |-> NoFrame]

\* The dates of the first NumQuarters quarters, and the first day of each.
AllDates == 0 .. (2 * NumQuarters - 1)
QuarterStarts == {2 * q : q \in 0 .. (NumQuarters - 1)}
\* One quarter more.
WideDates == 0 .. (2 * NumQuarters + 1)
WideStarts == {2 * q : q \in 0 .. NumQuarters}
ValueDates == {0, 2}
Signed == {Num(0 - 1), Num(0), Num(1), Num(2)}
Unsigned == {Num(0), Num(1), Num(2)}

\* A table with the cell `c` at every date of D.
Constant(col, D, c) == TableOf(col, D, [x \in D |-> c])

\* Column names a REER sheet may carry, with str.lower() and the two
\* substring tests of the column search.
ColumnNames == {"REER", "Reer", "REER_India", "Real Effective Exchange Rate", "Value"}
Lower(name) ==
  CASE name = "REER" -> "reer"
    [] name = "Reer" -> "reer"
    [] name = "REER_India" -> "reer_india"
    [] name = "Real Effective Exchange Rate" -> "real effective exchange rate"
    [] OTHER -> "value"
ContainsReer(s) == s \in {"reer", "reer_india"}
ContainsEffectiveExchange(s) == s = "real effective exchange rate"

\* The lists of at most n distinct column names.
ColumnLists(n) ==
  UNION {{cs \in [1..m -> ColumnNames] : ~HasDuplicates(cs)} : m \in 0..n}

\* A sheet with the columns cs and a row at each date of D; the cell of
\* column j at date x is the number 10*j + x + 1, so columns differ.
Sheet(cs, D) ==
  LET idx == SortedSeq(D)
  IN  Frame(cs, idx, [i \in DOMAIN idx |-> [j \in DOMAIN cs |-> Num(10 * j + idx[i] + 1)]])

Files(e, r, i) == [exports |-> e, reer |-> r, iip |-> i]

\* Inputs of run_regression.py.
RunInputs ==
  \* dates vary: the quarterly sheet may date a row anywhere in a quarter
  {Files(File(e), File(r), File(i)) :
     e \in Tables("IMP5330", QuarterStarts, {NaN, Num(1)}, MaxRows),
     r \in Tables("REER", AllDates, {Num(1)}, MaxRows),
     i \in Tables("IIP", QuarterStarts, {Num(1)}, MaxRows)}
  \cup
  \* values vary
  {Files(File(TableOf("IMP5330", ValueDates, e)), File(TableOf("REER", ValueDates, r)),
         File(TableOf("IIP", ValueDates, i))) :
     e \in [ValueDates -> Signed], r \in [ValueDates -> Signed], i \in [ValueDates -> Signed]}
  \cup
  \* the monthly series varies over a wider range and within the quarters
  {Files(File(e), File(Sheet(<<"REER">>, WideStarts)), File(Sheet(<<"IIP">>, WideDates))) :
     e \in Tables("IMP5330", WideDates, {NaN, Num(0 - 1), Num(1), Num(3)}, MaxRows)}
  \cup
  \* files are absent or unreadable
  {Files(e, r, i) :
     e \in {File(Constant("IMP5330", ValueDates, Num(1))), Missing, Unreadable},
     r \in {File(Constant("REER", ValueDates, Num(1))), Missing, Unreadable},
     i \in {File(Constant("IIP", ValueDates, Num(1))), Missing, Unreadable}}
  \cup
  \* column names vary
  {Files(File(Constant("IMP5330", ValueDates, Num(1))), File(Sheet(cs, ValueDates)),
         File(Constant(ic, ValueDates, Num(1)))) :
     cs \in ColumnLists(MaxCols), ic \in {"IIP", "Value"}}

\* Inputs of work.py.
WorkInputs ==
  {Files(File(e), File(r), File(i)) :
     e \in Tables("Exports", QuarterStarts, {NaN, Num(1)}, MaxRows),
     r \in Tables("REER", AllDates, {Num(1)}, MaxRows),
     i \in Tables("IIP", QuarterStarts, {Num(1)}, MaxRows)}
  \cup
  {Files(File(TableOf("Exports", ValueDates, e)), File(TableOf("REER", ValueDates, r)),
         File(TableOf("IIP", ValueDates, i))) :
     e \in [ValueDates -> Unsigned], r \in [ValueDates -> Unsigned],
     i \in [ValueDates -> Unsigned]}
  \cup
  {Files(e, r, i) :
     e \in {File(Constant("Exports", ValueDates, Num(1))), Missing},
     r \in {File(Constant("REER", ValueDates, Num(1))), Missing},
     i \in {File(Constant("IIP", ValueDates, Num(1))), Missing}}

\* Inputs of databreeeeee.py.
MergeInputs ==
  {[china |-> File(c), usa |-> File(u), india |-> File(i)] :
     c \in Tables("REER", AllDates, {Num(1)}, MaxRows),
     u \in Tables("REER", QuarterStarts, {Num(2)}, MaxRows),
     i \in Tables("REER", QuarterStarts, {NaN, Num(3)}, MaxRows)}
  \cup
  {[china |-> c, usa |-> u, india |-> i] :
     c \in {File(Constant("REER", ValueDates, Num(1))), Missing},
     u \in {File(Constant("REER", ValueDates, Num(1))), Missing},
     i \in {File(Constant("REER", ValueDates, Num(1))), Missing}}

\* ---------------------------------------------------------------------- state

VARIABLES
  script,      \* which script runs
  fs,          \* the input files
  pc,          \* the statement group the script is at
  out,         \* what has been written to the terminal, in order
  df_exp, df_reer, df_iip,        \* the loaded series
  df_exp_q, df_iip_q,             \* the resampled monthly series
  df_china, df_usa, df_india,     \* databreeeeee.py's tables
  df_merged,                      \* the panel
  y, X,                           \* endog and exog
  results                         \* the fitted model

vars == <<script, fs, pc, out, df_exp, df_reer, df_iip, df_exp_q, df_iip_q,
          df_china, df_usa, df_india, df_merged, y, X, results>>

\* One write to the terminal: the stage it comes from, its kind ("ok",
\* "warning", "summary", one of the script's error messages, or "traceback"
\* for the interpreter's report of an uncaught exception), the files, columns
\* and series its text names, the date ranges it prints and the number of
\* observations it prints.
Msg(stage, kind, about) ==
  [stage |-> stage, kind |-> kind, about |-> about, ranges |-> <<>>, nobs |-> 0]

ErrorKinds == {"file_not_found", "column_not_found", "load_error", "empty_panel",
               "fit_error"}

Say(m) == out' = Append(out, m)

Init ==
  /\ script \in {"run_regression", "work", "databreeeeee"}
  /\ fs \in (CASE script = "run_regression" -> RunInputs
               [] script = "work" -> WorkInputs
               [] OTHER -> MergeInputs)
  /\ pc = IF script = "databreeeeee" THEN "load_china" ELSE "load_exports"
  /\ out = <<>>
  /\ df_exp = NoFrame /\ df_reer = NoFrame /\ df_iip = NoFrame
  /\ df_exp_q = NoFrame /\ df_iip_q = NoFrame
  /\ df_china = NoFrame /\ df_usa = NoFrame /\ df_india = NoFrame
  /\ df_merged = NoFrame /\ y = NoFrame /\ X = NoFrame
  /\ results = NoResults

At(s, p) == script = s /\ pc = p

\* ---------------------------------------------------- run_regression.py: load

LoadExports ==
  /\ At("run_regression", "load_exports") /\ fs.exports.status = "ok"
  /\ df_exp' = RenameColumn(fs.exports.df, "IMP5330", "Exports")
  /\ Say(Msg("load_exports", "ok", {exports_file}))
  /\ pc' = "load_reer"
  /\ UNCHANGED <<script, fs, df_reer, df_iip, df_exp_q, df_iip_q, df_china, df_usa,
                 df_india, df_merged, y, X, results>>

LoadExportsNotFound ==
  /\ At("run_regression", "load_exports") /\ fs.exports.status = "missing"
  /\ Say(Msg("load_exports", "file_not_found", {exports_file}))
  /\ pc' = "exited"
  /\ UNCHANGED <<script, fs, df_exp, df_reer, df_iip, df_exp_q, df_iip_q, df_china,
                 df_usa, df_india, df_merged, y, X, results>>

LoadExportsError ==
  /\ At("run_regression", "load_exports") /\ fs.exports.status = "bad"
  /\ Say(Msg("load_exports", "load_error", {exports_file}))
  /\ pc' = "exited"
  /\ UNCHANGED <<script, fs, df_exp, df_reer, df_iip, df_exp_q, df_iip_q, df_china,
                 df_usa, df_india, df_merged, y, X, results>>

\* The columns the search of lines 62-66 keeps, in table order.
PossibleReerCols(cols) ==
  SelectSeq(cols, LAMBDA col : ContainsReer(Lower(col))
                               \/ ContainsEffectiveExchange(Lower(col)))

\* A search that keeps the last match instead of the first.
ReerColNameLast(cols) ==
  IF "REER" \in Range(cols) THEN "REER"
  ELSE IF PossibleReerCols(cols) = <<>> THEN ""
  ELSE PossibleReerCols(cols)[Len(PossibleReerCols(cols))]

\* The column the REER series is read from; "" when the search finds none.
ReerColName(cols) ==
  IF "REER" \in Range(cols) THEN "REER"
  ELSE IF PossibleReerCols(cols) = <<>> THEN ""
  ELSE PossibleReerCols(cols)[1]

\* df_reer once its column is chosen: the one column, named REER, on an index
\* moved to the quarters' last days.
ReerSeries(df, name) ==
  LET one == RenameColumn(SelectColumns(df, <<name>>), name, "REER")
  IN  [one EXCEPT !.index = ToQuarterEnd(one.index)]

LoadReer ==
  /\ At("run_regression", "load_reer") /\ fs.reer.status = "ok"
  /\ "REER" \in Range(fs.reer.df.columns)
  /\ df_reer' = ReerSeries(fs.reer.df, "REER")
  /\ Say(Msg("load_reer", "ok", {reer_file}))
  /\ pc' = "load_iip"
  /\ UNCHANGED <<script, fs, df_exp, df_iip, df_exp_q, df_iip_q, df_china, df_usa,
                 df_india, df_merged, y, X, results>>

LoadReerFallback ==
  /\ At("run_regression", "load_reer") /\ fs.reer.status = "ok"
  /\ "REER" \notin Range(fs.reer.df.columns)
  /\ PossibleReerCols(fs.reer.df.columns) # <<>>
  /\ LET reer_col_name == ReerColName(fs.reer.df.columns)
     IN  /\ df_reer' = ReerSeries(fs.reer.df, reer_col_name)
         /\ out' = out \o <<Msg("load_reer", "warning", {reer_col_name}),
                            Msg("load_reer", "ok", {reer_file})>>
  /\ pc' = "load_iip"
  /\ UNCHANGED <<script, fs, df_exp, df_iip, df_exp_q, df_iip_q, df_china, df_usa,
                 df_india, df_merged, y, X, results>>

LoadReerKeyError ==
  /\ At("run_regression", "load_reer") /\ fs.reer.status = "ok"
  /\ "REER" \notin Range(fs.reer.df.columns)
  /\ PossibleReerCols(fs.reer.df.columns) = <<>>
  /\ Say(Msg("load_reer", "column_not_found", {reer_file, "REER"}))
  /\ pc' = "exited"
  /\ UNCHANGED <<script, fs, df_exp, df_reer, df_iip, df_exp_q, df_iip_q, df_china,
                 df_usa, df_india, df_merged, y, X, results>>

LoadReerNotFound ==
  /\ At("run_regression", "load_reer") /\ fs.reer.status = "missing"
  /\ Say(Msg("load_reer", "file_not_found", {reer_file}))
  /\ pc' = "exited"
  /\ UNCHANGED <<script, fs, df_exp, df_reer, df_iip, df_exp_q, df_iip_q, df_china,
                 df_usa, df_india, df_merged, y, X, results>>

LoadReerError ==
  /\ At("run_regression", "load_reer") /\ fs.reer.status = "bad"
  /\ Say(Msg("load_reer", "load_error", {reer_file}))
  /\ pc' = "exited"
  /\ UNCHANGED <<script, fs, df_exp, df_reer, df_iip, df_exp_q, df_iip_q, df_china,
                 df_usa, df_india, df_merged, y, X, results>>

LoadIip ==
  /\ At("run_regression", "load_iip") /\ fs.iip.status = "ok"
  /\ "IIP" \in Range(fs.iip.df.columns)
  /\ df_iip' = SelectColumns(fs.iip.df, <<"IIP">>)
  /\ Say(Msg("load_iip", "ok", {iip_file}))
  /\ pc' = "resample"
  /\ UNCHANGED <<script, fs, df_exp, df_reer, df_exp_q, df_iip_q, df_china, df_usa,
                 df_india, df_merged, y, X, results>>

LoadIipKeyError ==
  /\ At("run_regression", "load_iip") /\ fs.iip.status = "ok"
  /\ "IIP" \notin Range(fs.iip.df.columns)
  /\ Say(Msg("load_iip", "column_not_found", {iip_file, "IIP"}))
  /\ pc' = "exited"
  /\ UNCHANGED <<script, fs, df_exp, df_reer, df_iip, df_exp_q, df_iip_q, df_china,
                 df_usa, df_india, df_merged, y, X, results>>

LoadIipNotFound ==
  /\ At("run_regression", "load_iip") /\ fs.iip.status = "missing"
  /\ Say(Msg("load_iip", "file_not_found", {iip_file}))
  /\ pc' = "exited"
  /\ UNCHANGED <<script, fs, df_exp, df_reer, df_iip, df_exp_q, df_iip_q, df_china,
                 df_usa, df_india, df_merged, y, X, results>>

LoadIipError ==
  /\ At("run_regression", "load_iip") /\ fs.iip.status = "bad"
  /\ Say(Msg("load_iip", "load_error", {iip_file}))
  /\ pc' = "exited"
  /\ UNCHANGED <<script, fs, df_exp, df_reer, df_iip, df_exp_q, df_iip_q, df_china,
                 df_usa, df_india, df_merged, y, X, results>>

\* ------------------------------------------- run_regression.py: the pipeline

loaded == <<df_exp, df_reer, df_iip>>
quarterly == <<df_exp_q, df_iip_q>>
tables == <<df_china, df_usa, df_india>>
fit == <<y, X, results>>

\* Lines 129-134.  The except branch of lines 135-137 needs a cell that is not
\* a number, which the input files here do not hold.
ResampleStep ==
  /\ At("run_regression", "resample")
  /\ df_exp_q' = Resample(df_exp)
  /\ df_iip_q' = Resample(df_iip)
  /\ Say(Msg("resample", "ok", {"Exports", "IIP"}))
  /\ pc' = "concat"
  /\ UNCHANGED <<script, fs, loaded, tables, df_merged, fit>>

\* Line 143.
ConcatStep ==
  /\ At("run_regression", "concat")
  /\ ~ConcatRaises(<<df_exp_q, df_reer, df_iip_q>>)
  /\ df_merged' = Concat(<<df_exp_q, df_reer, df_iip_q>>)
  /\ pc' = "dropna"
  /\ UNCHANGED <<script, fs, out, loaded, quarterly, tables, fit>>

\* Line 143 stands outside every try block: the InvalidIndexError ends the run
\* with the interpreter's traceback.
ConcatStepRaises ==
  /\ At("run_regression", "concat")
  /\ ConcatRaises(<<df_exp_q, df_reer, df_iip_q>>)
  /\ Say(Msg("concat", "traceback", {}))
  /\ pc' = "crashed"
  /\ UNCHANGED <<script, fs, loaded, quarterly, tables, df_merged, fit>>

RangeOf(name, df) == <<name, IndexMin(df), IndexMax(df)>>

\* Lines 146-148 and 158-160.
DropNaStep ==
  /\ At("run_regression", "dropna")
  /\ NRows(DropNa(df_merged)) > 0
  /\ df_merged' = DropNa(df_merged)
  /\ Say([Msg("dropna", "ok", {}) EXCEPT !.ranges = <<RangeOf("df_merged", df_merged')>>])
  /\ pc' = "log"
  /\ UNCHANGED <<script, fs, loaded, quarterly, tables, fit>>

\* Lines 146-157.
DropNaStepEmpty ==
  /\ At("run_regression", "dropna")
  /\ NRows(DropNa(df_merged)) = 0
  /\ df_merged' = DropNa(df_merged)
  /\ Say([Msg("dropna", "empty_panel", {"Exports", "REER", "IIP"}) EXCEPT
            !.ranges = <<RangeOf("Exports", df_exp), RangeOf("REER", df_reer),
                         RangeOf("IIP", df_iip)>>])
  /\ pc' = "exited"
  /\ UNCHANGED <<script, fs, loaded, quarterly, tables, fit>>

\* A log stage that also drops the rows whose logarithm is not finite.
WithLogsDroppingRows(df) ==
  LET a == SetColumn(df, "ln_exp", LogColumn(df, "Exports"))
      b == SetColumn(a, "ln_reer", LogColumn(a, "REER"))
      c == SetColumn(b, "ln_iip", LogColumn(b, "IIP"))
      keep == SelectSeq([i \in DOMAIN c.index |-> i],
                        LAMBDA i : \A j \in DOMAIN c.columns : IsFinite(c.data[i][j]))
  IN  Frame(c.columns, [r \in DOMAIN keep |-> c.index[keep[r]]],
            [r \in DOMAIN keep |-> c.data[keep[r]]])

\* The three assignments of the log stage.
WithLogs(df) ==
  LET a == SetColumn(df, "ln_exp", LogColumn(df, "Exports"))
      b == SetColumn(a, "ln_reer", LogColumn(a, "REER"))
  IN  SetColumn(b, "ln_iip", LogColumn(b, "IIP"))

\* Lines 166-171.  np.log raises for no number, so the except branch of lines
\* 172-179 is not entered.
LogStep ==
  /\ At("run_regression", "log")
  /\ df_merged' = WithLogs(df_merged)
  /\ Say(Msg("log", "ok", {}))
  /\ pc' = "setup"
  /\ UNCHANGED <<script, fs, loaded, quarterly, tables, fit>>

Endog(df) == SelectColumns(df, <<"ln_exp">>)
Exog(df) == AddConstant(SelectColumns(df, <<"ln_reer", "ln_iip">>))

\* Lines 185-191.
SetupStep ==
  /\ At("run_regression", "setup")
  /\ y' = Endog(df_merged)
  /\ X' = Exog(df_merged)
  /\ pc' = "fit"
  /\ UNCHANGED <<script, fs, out, loaded, quarterly, tables, df_merged, results>>

\* Lines 196-199.
FitStep ==
  /\ At("run_regression", "fit")
  /\ "ok" \in OlsOutcomes(y, X)
  /\ results' = OlsResults(y, X)
  /\ Say(Msg("fit", "ok", {}))
  /\ pc' = "report"
  /\ UNCHANGED <<script, fs, loaded, quarterly, tables, df_merged, y, X>>

\* Lines 200-202.
FitStepError ==
  /\ At("run_regression", "fit")
  /\ "raise" \in OlsOutcomes(y, X)
  /\ Say(Msg("fit", "fit_error", {}))
  /\ pc' = "exited"
  /\ UNCHANGED <<script, fs, loaded, quarterly, tables, df_merged, fit>>

\* Lines 207-223.
ReportStep ==
  /\ At("run_regression", "report")
  /\ Say([Msg("report", "summary", {exports_file, reer_file, iip_file}) EXCEPT
            !.ranges = <<RangeOf("df_merged", df_merged)>>, !.nobs = results.nobs])
  /\ pc' = "store"
  /\ UNCHANGED <<script, fs, loaded, quarterly, tables, df_merged, fit>>

\* The two assignments that store the fit in the panel.
WithFit(df, res, fitted, resid) ==
  SetColumnAligned(SetColumnAligned(df, fitted, res.index, res.fittedvalues),
                   resid, res.index, res.resid)

\* Lines 228-229.
StoreStep ==
  /\ At("run_regression", "store")
  /\ df_merged' = WithFit(df_merged, results, "fitted_ln_exp", "residuals")
  /\ pc' = "done"
  /\ UNCHANGED <<script, fs, out, loaded, quarterly, tables, fit>>

\* -------------------------------------------------------------------- work.py

\* Lines 19-34: a file that cannot be read ends the run with a traceback.
WorkLoadExports ==
  /\ At("work", "load_exports") /\ fs.exports.status = "ok"
  /\ df_exp' = fs.exports.df
  /\ pc' = "load_reer"
  /\ UNCHANGED <<script, fs, out, df_reer, df_iip, quarterly, tables, df_merged, fit>>

WorkLoadReer ==
  /\ At("work", "load_reer") /\ fs.reer.status = "ok"
  /\ df_reer' = fs.reer.df
  /\ pc' = "load_iip"
  /\ UNCHANGED <<script, fs, out, df_exp, df_iip, quarterly, tables, df_merged, fit>>

WorkLoadIip ==
  /\ At("work", "load_iip") /\ fs.iip.status = "ok"
  /\ df_iip' = fs.iip.df
  /\ pc' = "concat"
  /\ UNCHANGED <<script, fs, out, df_exp, df_reer, quarterly, tables, df_merged, fit>>

WorkLoadRaises ==
  /\ script = "work"
  /\ \/ pc = "load_exports" /\ fs.exports.status # "ok"
     \/ pc = "load_reer" /\ fs.reer.status # "ok"
     \/ pc = "load_iip" /\ fs.iip.status # "ok"
  /\ Say(Msg(pc, "traceback", {}))
  /\ pc' = "crashed"
  /\ UNCHANGED <<script, fs, loaded, quarterly, tables, df_merged, fit>>

WorkFrames ==
  <<SelectColumns(df_exp, <<"Exports">>), SelectColumns(df_reer, <<"REER">>),
    SelectColumns(df_iip, <<"IIP">>)>>

\* Line 42.  The input tables have distinct dates, with which concat does not
\* raise.
WorkConcat ==
  /\ At("work", "concat")
  /\ ~ConcatRaises(WorkFrames)
  /\ df_merged' = Concat(WorkFrames)
  /\ pc' = "dropna"
  /\ UNCHANGED <<script, fs, out, loaded, quarterly, tables, fit>>

\* Line 43.
WorkDropNa ==
  /\ At("work", "dropna")
  /\ df_merged' = DropNa(df_merged)
  /\ pc' = "log"
  /\ UNCHANGED <<script, fs, out, loaded, quarterly, tables, fit>>

\* Lines 48-50.
WorkLog ==
  /\ At("work", "log")
  /\ df_merged' = WithLogs(df_merged)
  /\ pc' = "setup"
  /\ UNCHANGED <<script, fs, out, loaded, quarterly, tables, fit>>

\* Lines 60-62.
WorkSetup ==
  /\ At("work", "setup")
  /\ y' = Endog(df_merged)
  /\ X' = Exog(df_merged)
  /\ pc' = "fit"
  /\ UNCHANGED <<script, fs, out, loaded, quarterly, tables, df_merged, results>>

\* Lines 67-68.
WorkFit ==
  /\ At("work", "fit")
  /\ "ok" \in OlsOutcomes(y, X)
  /\ results' = OlsResults(y, X)
  /\ pc' = "report"
  /\ UNCHANGED <<script, fs, out, loaded, quarterly, tables, df_merged, y, X>>

\* Lines 67-68 stand in no try block.
WorkFitRaises ==
  /\ At("work", "fit")
  /\ "raise" \in OlsOutcomes(y, X)
  /\ Say(Msg("fit", "traceback", {}))
  /\ pc' = "crashed"
  /\ UNCHANGED <<script, fs, loaded, quarterly, tables, df_merged, fit>>

\* Line 73.
WorkReport ==
  /\ At("work", "report")
  /\ Say([Msg("report", "summary", {}) EXCEPT !.nobs = results.nobs])
  /\ pc' = "store"
  /\ UNCHANGED <<script, fs, loaded, quarterly, tables, df_merged, fit>>

\* Lines 79-83.
WorkStore ==
  /\ At("work", "store")
  /\ df_merged' = WithFit(df_merged, results, "fitted", "residuals")
  /\ Say(Msg("store", "ok", {}))
  /\ pc' = "done"
  /\ UNCHANGED <<script, fs, loaded, quarterly, tables, fit>>

\* ------------------------------------------------------------ databreeeeee.py

\* Lines 8-20: read one table and name its REER column after the country.
DbLoadChina ==
  /\ At("databreeeeee", "load_china") /\ fs.china.status = "ok"
  /\ df_china' = RenameColumn(fs.china.df, "REER", "REER_China")
  /\ pc' = "load_usa"
  /\ UNCHANGED <<script, fs, out, loaded, quarterly, df_usa, df_india, df_merged, fit>>

DbLoadUsa ==
  /\ At("databreeeeee", "load_usa") /\ fs.usa.status = "ok"
  /\ df_usa' = RenameColumn(fs.usa.df, "REER", "REER_USA")
  /\ pc' = "load_india"
  /\ UNCHANGED <<script, fs, out, loaded, quarterly, df_china, df_india, df_merged, fit>>

DbLoadIndia ==
  /\ At("databreeeeee", "load_india") /\ fs.india.status = "ok"
  /\ df_india' = RenameColumn(fs.india.df, "REER", "REER_India")
  /\ pc' = "merge_usa"
  /\ UNCHANGED <<script, fs, out, loaded, quarterly, df_china, df_usa, df_merged, fit>>

DbLoadRaises ==
  /\ script = "databreeeeee"
  /\ \/ pc = "load_china" /\ fs.china.status # "ok"
     \/ pc = "load_usa" /\ fs.usa.status # "ok"
     \/ pc = "load_india" /\ fs.india.status # "ok"
  /\ Say(Msg(pc, "traceback", {}))
  /\ pc' = "crashed"
  /\ UNCHANGED <<script, fs, loaded, quarterly, tables, df_merged, fit>>

\* Lines 24-29.
DbMergeUsa ==
  /\ At("databreeeeee", "merge_usa")
  /\ df_merged' = MergeOuter(SelectColumns(df_china, <<"REER_China">>),
                             SelectColumns(df_usa, <<"REER_USA">>))
  /\ pc' = "merge_india"
  /\ UNCHANGED <<script, fs, out, loaded, quarterly, tables, fit>>

\* Lines 30-32.
DbMergeIndia ==
  /\ At("databreeeeee", "merge_india")
  /\ df_merged' = MergeOuter(df_merged, SelectColumns(df_india, <<"REER_India">>))
  /\ pc' = "sort"
  /\ UNCHANGED <<script, fs, out, loaded, quarterly, tables, fit>>

\* Line 35.
DbSort ==
  /\ At("databreeeeee", "sort")
  /\ df_merged' = SortByDate(df_merged)
  /\ pc' = "save"
  /\ UNCHANGED <<script, fs, out, loaded, quarterly, tables, fit>>

\* Lines 38-39.
DbSave ==
  /\ At("databreeeeee", "save")
  /\ Say(Msg("save", "ok", {"Merged_REER.xlsx"}))
  /\ pc' = "done"
  /\ UNCHANGED <<script, fs, loaded, quarterly, tables, df_merged, fit>>

\* ---------------------------------------------------------------------- system

Next ==
  \/ LoadExports \/ LoadExportsNotFound \/ LoadExportsError
  \/ LoadReer \/ LoadReerFallback \/ LoadReerKeyError \/ LoadReerNotFound
  \/ LoadReerError
  \/ LoadIip \/ LoadIipKeyError \/ LoadIipNotFound \/ LoadIipError
  \/ ResampleStep \/ ConcatStep \/ ConcatStepRaises \/ DropNaStep \/ DropNaStepEmpty
  \/ LogStep \/ SetupStep \/ FitStep \/ FitStepError \/ ReportStep \/ StoreStep
  \/ WorkLoadExports \/ WorkLoadReer \/ WorkLoadIip \/ WorkLoadRaises
  \/ WorkConcat \/ WorkDropNa \/ WorkLog \/ WorkSetup \/ WorkFit \/ WorkFitRaises
  \/ WorkReport \/ WorkStore
  \/ DbLoadChina \/ DbLoadUsa \/ DbLoadIndia \/ DbLoadRaises
  \/ DbMergeUsa \/ DbMergeIndia \/ DbSort \/ DbSave

Spec == Init /\ [][Next]_vars

\* ====================================================================== claims

Printed(stage) == \E i \in DOMAIN out : out[i].stage = stage
Regression == script \in {"run_regression", "work"}

\* ---------------------------------------------------------------------- C5

\* The rows of df that are dated in quarter q and hold a number.
Observations(df, q) ==
  {i \in DOMAIN df.index : QuarterOf(df.index[i]) = q /\ ~IsNa(df.data[i][1])}

RECURSIVE SumOfRows(_, _)
SumOfRows(df, P) ==
  IF P = {} THEN 0
  ELSE LET i == CHOOSE i \in P : TRUE IN df.data[i][1].n + SumOfRows(df, P \ {i})

\* dfq has exactly one row per quarter from df's first to df's last date, each
\* dated at the quarter's last day; its cell is the mean of the quarter's
\* observations, and missing when the quarter has none.
IsQuarterlyMean(df, dfq) ==
  IF NRows(df) = 0 THEN NRows(dfq) = 0
  ELSE LET q0 == QuarterOf(IndexMin(df))
           q1 == QuarterOf(IndexMax(df))
       IN  /\ NRows(dfq) = q1 - q0 + 1
           /\ \A q \in q0..q1 : Count(dfq.index, QuarterEnd(q)) = 1
           /\ \A r \in DOMAIN dfq.index :
                LET obs == Observations(df, QuarterOf(dfq.index[r]))
                    c   == dfq.data[r][1]
                IN  /\ IsQuarterEnd(dfq.index[r])
                    /\ IF obs = {} THEN c = NaN
                       ELSE /\ c.k = "num" /\ c.d > 0
                            /\ c.n * Cardinality(obs) = c.d * SumOfRows(df, obs)

\* C5: resampling a monthly series (Exports, IIP) gives exactly one row for
\* every quarter between the first and the last input date, dated at the last
\* day of the quarter; the row holds the arithmetic mean of the observations
\* dated in that quarter, and a missing value (not zero, not an error) when
\* the quarter holds none.
C5_ResampleIsQuarterlyMean ==
  (script = "run_regression" /\ Printed("resample")) =>
     /\ IsQuarterlyMean(df_exp, df_exp_q)
     /\ IsQuarterlyMean(df_iip, df_iip_q)

\* Exports has observations in a first and in a third quarter and none in the
\* quarter between them.
C5_Witness ==
  /\ script = "run_regression" /\ Printed("resample")
  /\ NRows(df_exp_q) = 3
  /\ Observations(df_exp, QuarterOf(df_exp_q.index[1])) # {}
  /\ Observations(df_exp, QuarterOf(df_exp_q.index[2])) = {}
  /\ Observations(df_exp, QuarterOf(df_exp_q.index[3])) # {}
  /\ df_exp_q.data[2][1] = NaN

\* ---------------------------------------------------------------------- C7

Matches(col) == ContainsReer(Lower(col)) \/ ContainsEffectiveExchange(Lower(col))
ReerMessages == SelectSeq(out, LAMBDA m : m.stage = "load_reer")

\* df_reer holds column j of the sheet, as its only column, named REER.
IsSheetColumn(j) ==
  /\ df_reer.columns = <<"REER">>
  /\ NRows(df_reer) = NRows(fs.reer.df)
  /\ \A i \in DOMAIN df_reer.index : df_reer.data[i] = <<fs.reer.df.data[i][j]>>

\* C7: loading REER uses the column named exactly "REER" without a warning
\* when there is one; otherwise it uses the first column, in table order,
\* whose name contains "reer" or "effective exchange" in any case, renames it
\* to "REER" and first writes a warning naming it; when no column matches, the
\* load fails with a column-not-found error and the run ends.  A load that
\* succeeds leaves exactly one column, named "REER".
C7_ReerColumnResolution ==
  (script = "run_regression" /\ fs.reer.status = "ok" /\ Printed("load_reer")) =>
     LET cols == fs.reer.df.columns
         hits == {j \in DOMAIN cols : Matches(cols[j])}
     IN  /\ "REER" \in Range(cols) =>
              /\ Len(ReerMessages) = 1 /\ ReerMessages[1].kind = "ok"
              /\ IsSheetColumn(CHOOSE j \in DOMAIN cols : cols[j] = "REER")
         /\ ("REER" \notin Range(cols) /\ hits # {}) =>
              /\ Len(ReerMessages) = 2
              /\ ReerMessages[1].kind = "warning"
              /\ ReerMessages[1].about = {cols[SetMin(hits)]}
              /\ ReerMessages[2].kind = "ok"
              /\ IsSheetColumn(SetMin(hits))
         /\ ("REER" \notin Range(cols) /\ hits = {}) =>
              /\ Len(ReerMessages) = 1
              /\ ReerMessages[1].kind = "column_not_found"
              /\ out[Len(out)] = ReerMessages[1]
              /\ pc = "exited"
              /\ df_reer = NoFrame

\* The sheet has no column REER, its first column does not match and its
\* second one does: the second was loaded, after a warning.
C7_Witness ==
  /\ script = "run_regression" /\ fs.reer.status = "ok" /\ pc = "load_iip"
  /\ Len(fs.reer.df.columns) = 2
  /\ "REER" \notin Range(fs.reer.df.columns)
  /\ ~Matches(fs.reer.df.columns[1]) /\ Matches(fs.reer.df.columns[2])
  /\ ReerMessages[1].kind = "warning"

\* ---------------------------------------------------------------------- C10

\* new is old with the columns `names` put after old's columns: the index and
\* every cell of old are as they were.
IsAppended(old, new, names) ==
  /\ new.columns = old.columns \o names
  /\ new.index = old.index
  /\ \A i \in DOMAIN old.index :
       /\ Len(new.data[i]) = Len(new.columns)
       /\ SubSeq(new.data[i], 1, Len(old.columns)) = old.data[i]

FitColumns == IF script = "work" THEN <<"fitted", "residuals">>
              ELSE <<"fitted_ln_exp", "residuals">>

\* C10: the log stage and the regression stage only append columns.  The log
\* stage adds ln_exp, ln_reer and ln_iip and leaves Exports, REER, IIP, the
\* rows and the date index as they were; the regression stage adds the fitted
\* values and the residuals and leaves every earlier column, the rows and the
\* index as they were.
C10_StagesOnlyAppend ==
  [][/\ (Regression /\ pc = "log" /\ pc' = "setup") =>
          /\ df_merged.columns = <<"Exports", "REER", "IIP">>
          /\ IsAppended(df_merged, df_merged', <<"ln_exp", "ln_reer", "ln_iip">>)
     /\ (Regression /\ pc = "store" /\ pc' = "done") =>
          IsAppended(df_merged, df_merged', FitColumns)
     /\ (Regression /\ pc \in {"setup", "fit", "report"}) => df_merged' = df_merged
    ]_vars

\* A run of run_regression.py that stored its fit in a panel of two rows.
C10_Witness ==
  /\ script = "run_regression" /\ pc = "done"
  /\ NRows(df_merged) = 2
  /\ df_merged.columns = <<"Exports", "REER", "IIP", "ln_exp", "ln_reer", "ln_iip",
                           "fitted_ln_exp", "residuals">>

\* ------------------------------------------------------------ shared notions

\* The three series the panel is built from.
Series == IF script = "work" THEN WorkFrames ELSE <<df_exp_q, df_reer, df_iip_q>>

\* The align step (concat, then dropna) is over.
Aligned ==
  \/ script = "run_regression" /\ Printed("dropna")
  \/ script = "work" /\ (pc \in {"log", "setup", "fit", "report", "store", "done"}
                         \/ Printed("fit"))

\* The log stage is over.
Logged ==
  Regression /\ (pc \in {"setup", "fit", "report", "store", "done"} \/ Printed("fit"))

\* The fit returned.
Fitted == Regression /\ pc \in {"report", "store", "done"}

LastMsg == out[Len(out)]

\* ---------------------------------------------------------------------- C1

\* C1: the regression stage is never reached with a panel of zero rows: when
\* the panel is empty after the complete-case filter, the run reports an
\* empty-panel failure carrying the first and last date of each of the three
\* source series and ends before the log and regression stages.
C1_EmptyPanelNeverRegressed ==
  Regression =>
     /\ (pc \in {"log", "setup", "fit", "report", "store", "done"} \/ Printed("fit"))
          => NRows(df_merged) > 0
     /\ (Aligned /\ NRows(df_merged) = 0) =>
          /\ pc = "exited"
          /\ LastMsg.kind = "empty_panel"
          /\ LastMsg.ranges = <<RangeOf("Exports", df_exp), RangeOf("REER", df_reer),
                                RangeOf("IIP", df_iip)>>

\* The same statement of run_regression.py alone, which does make the check.
C1_RunRegressionAlone == script = "run_regression" => C1_EmptyPanelNeverRegressed

\* ---------------------------------------------------------------------- C2

HasValue(df, date) ==
  \E i \in DOMAIN df.index : df.index[i] = date /\ ~IsNa(df.data[i][1])

\* C2: after the align step the panel's dates are exactly the dates at which
\* every series has a value; no row is left with a missing value in Exports,
\* REER or IIP; and so the panel has at most as many rows as the shortest
\* series has dates.
C2_AlignIsInnerJoin ==
  (Regression /\ Aligned) =>
     /\ Dates(df_merged) =
          {d \in UNION {Dates(Series[n]) : n \in 1..3} : \A n \in 1..3 : HasValue(Series[n], d)}
     /\ \A i \in DOMAIN df_merged.index : \A j \in 1..3 : ~IsNa(df_merged.data[i][j])
     /\ \A n \in 1..3 : NRows(df_merged) <= Cardinality(Dates(Series[n]))

\* ---------------------------------------------------------------------- C3

\* panel has one row per date of the union of the series' dates, and a
\* missing cell wherever the date is absent from the column's series.
IsOuterJoin(panel, series) ==
  /\ NRows(panel) = Cardinality(UNION {Dates(series[n]) : n \in DOMAIN series})
  /\ Dates(panel) = UNION {Dates(series[n]) : n \in DOMAIN series}
  /\ \A i \in DOMAIN panel.index : \A n \in DOMAIN series :
       panel.index[i] \notin Dates(series[n]) => IsNa(panel.data[i][n])

\* C3: the outer join (the two outer merges on Date of databreeeeee.py, the
\* column-wise concat of run_regression.py) has as many rows as there are
\* distinct dates in the union of the input series' dates, and a missing value
\* in a series' column at every date absent from that series.
C3_OuterJoinRowsAreUnionOfDates ==
  /\ (script = "databreeeeee" /\ pc \in {"sort", "save", "done"})
       => IsOuterJoin(df_merged, <<df_china, df_usa, df_india>>)
  /\ (script = "run_regression" /\ pc = "dropna")
       => IsOuterJoin(df_merged, <<df_exp_q, df_reer, df_iip_q>>)

\* ---------------------------------------------------------------------- C4

Targets == <<"Exports", "REER", "IIP">>

\* A cell of Exports, REER or IIP in the panel is zero or negative.
HasNonPositive(df) ==
  /\ \A j \in 1..3 : HasCol(df, Targets[j])
  /\ \E j \in 1..3 : \E i \in DOMAIN df.index :
       LET c == Column(df, Targets[j])[i] IN c.k = "num" /\ c.n <= 0

\* C4: with a zero or negative value in Exports, REER or IIP the log stage
\* fails with a non-positive-value condition that names the column, before any
\* logarithm is taken: no ln_* column is added and the run does not go on to
\* the regression stage.
C4_NonPositiveStopsLogStage ==
  (Regression /\ Aligned /\ pc # "log" /\ HasNonPositive(df_merged)) =>
     /\ pc = "exited"
     /\ LastMsg.stage = "log" /\ LastMsg.kind \in ErrorKinds
     /\ LastMsg.about \cap Range(Targets) # {}
     /\ df_merged.columns = Targets

\* ---------------------------------------------------------------------- C6

StageOrder == <<"load_exports", "load_reer", "load_iip", "resample", "concat",
                "dropna", "log", "setup", "fit", "report", "store">>
StageNo(stage) == CHOOSE n \in DOMAIN StageOrder : StageOrder[n] = stage

\* The stages of run_regression.py that report their success.
Reporting == {"load_exports", "load_reer", "load_iip", "resample", "dropna", "log", "fit"}

\* C6: the stages of run_regression.py run in the fixed order; a stage that
\* fails reports the failure, naming its input, and the run ends there; the
\* regression summary is written only when every earlier stage succeeded.
C6_FailFastInOrder ==
  script = "run_regression" =>
     /\ \A i, j \in DOMAIN out : i < j => StageNo(out[i].stage) <= StageNo(out[j].stage)
     /\ pc \in {"exited", "crashed"} =>
          /\ LastMsg.kind \in ErrorKinds
          /\ LastMsg.about # {}
          /\ \A i \in 1..(Len(out) - 1) : out[i].kind \in {"ok", "warning"}
     /\ (\E i \in DOMAIN out : out[i].kind = "summary") =>
          /\ \A i \in DOMAIN out : out[i].kind \in {"ok", "warning", "summary"}
          /\ \A st \in Reporting : \E i \in DOMAIN out : out[i].stage = st /\ out[i].kind = "ok"

\* What holds of every run: the order, the end at the failing stage, and the
\* summary only after every stage succeeded.
C6_OrderAndEnd ==
  script = "run_regression" =>
     /\ \A i, j \in DOMAIN out : i < j => StageNo(out[i].stage) <= StageNo(out[j].stage)
     /\ pc \in {"exited", "crashed"} =>
          /\ LastMsg.kind \in ErrorKinds \cup {"traceback"}
          /\ \A i \in 1..(Len(out) - 1) : out[i].kind \in {"ok", "warning"}
     /\ (\E i \in DOMAIN out : out[i].kind = "summary") =>
          /\ \A i \in DOMAIN out : out[i].kind \in {"ok", "warning", "summary"}
          /\ \A st \in Reporting : \E i \in DOMAIN out : out[i].stage = st /\ out[i].kind = "ok"

\* ---------------------------------------------------------------------- C8

\* C8: when the fit succeeds it reports as many observations as the panel has
\* rows, it has exactly the 3 coefficients (intercept, ln_reer, ln_iip), and
\* the fitted values and residuals put into the panel hold one value per row
\* on the panel's own dates.
C8_FitShape ==
  Fitted =>
     /\ results.nobs = NRows(df_merged)
     /\ results.params = <<"const", "ln_reer", "ln_iip">>
     /\ results.index = df_merged.index
     /\ Len(results.fittedvalues) = NRows(df_merged)
     /\ Len(results.resid) = NRows(df_merged)
     /\ pc = "done" =>
          /\ Len(Column(df_merged, FitColumns[1])) = NRows(df_merged)
          /\ Len(Column(df_merged, FitColumns[2])) = NRows(df_merged)

\* The same without the count of coefficients.
C8_FitShapeButCoefficients ==
  Fitted =>
     /\ results.nobs = NRows(df_merged)
     /\ results.index = df_merged.index
     /\ Len(results.fittedvalues) = NRows(df_merged)
     /\ Len(results.resid) = NRows(df_merged)
     /\ pc = "done" =>
          /\ Column(df_merged, FitColumns[1]) = results.fittedvalues
          /\ Column(df_merged, FitColumns[2]) = results.resid

\* ---------------------------------------------------------------------- C9

\* C9: from the align step on, the panel's dates are unique, ascending and
\* each the last day of a quarter, whatever the REER sheet holds, two dates in
\* one quarter included; and stamping a quarter-end date again leaves it as it
\* is.
C9_PanelDatesUniqueSortedQuarterEnds ==
  (script = "run_regression" /\ Printed("dropna")) =>
     /\ ~HasDuplicates(df_merged.index)
     /\ IsSorted(df_merged.index)
     /\ \A i \in DOMAIN df_merged.index : IsQuarterEnd(df_merged.index[i])
     /\ ToQuarterEnd(df_reer.index) = df_reer.index

\* The same without uniqueness.
C9_PanelDatesSortedQuarterEnds ==
  (script = "run_regression" /\ Printed("dropna")) =>
     /\ IsSorted(df_merged.index)
     /\ \A i \in DOMAIN df_merged.index : IsQuarterEnd(df_merged.index[i])
     /\ ToQuarterEnd(df_reer.index) = df_reer.index

=============================================================================
